---------------------------- MODULE Spec2Model ----------------------------
(***************************************************************************)
(* A model of model.py: the evaluator (evaluate), the residual functions   *)
(* (miss_all, miss_one) and the main program's run loop over simulation    *)
(* definition files.                                                       *)
(*                                                                         *)
(* Numbers.  The program computes in IEEE 754 binary64 floating point,     *)
(* and so does the model: every sum, difference, product and quotient is   *)
(* rounded to the nearest float, ties to even, with signed zeros,          *)
(* infinities and NaN.  None (the fill value of the lam and cap columns)   *)
(* is a value of its own, which never enters arithmetic.  A power is       *)
(* computed by the C library's pow, which returns a float next to the      *)
(* exact power, not always the nearest: where the power is not a float the *)
(* model has both neighbours as outcomes, so that evaluate gives a set of  *)
(* outcomes.  The cells of an object column keep their type: a Python      *)
(* float raises where a numpy float64 gives an infinity or NaN.            *)
(*                                                                         *)
(* Tables.  A pandas DataFrame is a sequence of rows (records) in file     *)
(* order, its index the rows' period field; a pandas Series is a sequence  *)
(* of [k |-> label, v |-> value].  Index labels are unique integers.       *)
(***************************************************************************)
EXTENDS Integers, Sequences, FiniteSets, TLC

-----------------------------------------------------------------------------
(* Floating point values: IEEE 754 binary64, as the tuple <<s, hi, lo, e>>  *)
(* of the value (-1)^s (hi 2^27 + lo) 2^e.  The significand hi 2^27 + lo    *)
(* has 53 bits (hi in 2^25..2^26-1) for a normal number, fewer at the       *)
(* exponent MinExp for a subnormal one, and is 0 for the zeros.  hi = -1    *)
(* marks what is not a number: the infinities, NaN, None and an empty       *)
(* cell of a CSV file.  Every operation rounds its exact result to the      *)
(* nearest value, ties to even.                                             *)

W == 2^27
MinExp == 0 - 1074
MaxExp == 971

Zero(s) == <<s, 0, 0, 0>>
Inf(s) == <<s, 0 - 1, 0, 0>>
NaN == <<0, 0 - 1, 1, 0>>
None == <<0, 0 - 1, 2, 0>>

IsNaN(x) == x[2] = 0 - 1 /\ x[3] = 1
IsNone(x) == x[2] = 0 - 1 /\ x[3] = 2
IsInf(x) == x[2] = 0 - 1 /\ x[3] = 0
IsFinite(x) == x[2] >= 0
IsZero(x) == x[2] = 0 /\ x[3] = 0
IsNumber(x) == x[2] >= 0 \/ x[3] = 0

Max(a, b) == IF a >= b THEN a ELSE b

\* Natural numbers below 2^108 as four digits of 27 bits, lowest first.
Dig(N, i) == IF i >= 1 /\ i <= 4 THEN N[i] ELSE 0

\* The number of bits of n < 2^27: of three bits, of nine, of all.
BL27(n) ==
    LET BL3(m) == IF m >= 4 THEN 3 ELSE IF m >= 2 THEN 2 ELSE m
        BL9(m) ==
            BL3(IF m >= 64 THEN m \div 64 ELSE IF m >= 8 THEN m \div 8 ELSE m)
                + (IF m >= 64 THEN 6 ELSE IF m >= 8 THEN 3 ELSE 0)
    IN  BL9(IF n >= 2^18 THEN n \div 2^18
            ELSE IF n >= 2^9 THEN n \div 2^9 ELSE n)
            + (IF n >= 2^18 THEN 18 ELSE IF n >= 2^9 THEN 9 ELSE 0)

\* The number of bits of N.
BitLen(N) ==
    LET Upto(k) == 27 * (k - 1) + BL27(N[k])
    IN  Upto(IF N[4] > 0 THEN 4 ELSE IF N[3] > 0 THEN 3
             ELSE IF N[2] > 0 THEN 2 ELSE 1)

\* N \div 2^s
ShR(N, s) ==
    LET By(w, b) ==
            [j \in 1..4 |->
                (Dig(N, j + w) \div 2^b)
                    + (Dig(N, j + w + 1) % 2^b) * 2^(27 - b)]
    IN  By(s \div 27, s % 27)

\* N * 2^s, for a result below 2^108
ShL(N, s) ==
    LET By(w, b) ==
            [j \in 1..4 |->
                (Dig(N, j - w) % 2^(27 - b)) * 2^b
                    + (Dig(N, j - w - 1) \div 2^(27 - b))]
    IN  By(s \div 27, s % 27)

\* N % 2^s # 0
LowNonZero(N, s) ==
    \E j \in 1..4 :
        \/ j <= s \div 27 /\ N[j] # 0
        \/ j = s \div 27 + 1 /\ N[j] % 2^(s % 27) # 0

\* Bit i of N, bit 0 the lowest.
Bit(N, i) == (Dig(N, i \div 27 + 1) \div 2^(i % 27)) % 2

\* The digits of a + b W + c W^2 + d W^3, each column carried into the
\* next.
Carry(a, b, c, d) ==
    LET CarryC(a1, b1, c1, d1) == <<a1, b1, c1 % W, d1 + (c1 \div W)>>
        CarryB(a1, b1, c1, d1) == CarryC(a1, b1 % W, c1 + (b1 \div W), d1)
    IN  CarryB(a % W, b + (a \div W), c, d)

\* N + t M for t = 1, and for t = -1 if N >= M.
Mag(N, M, t) ==
    Carry(N[1] + t * M[1], N[2] + t * M[2], N[3] + t * M[3], N[4] + t * M[4])

GeN(N, M) ==
    IF N[4] # M[4] THEN N[4] > M[4]
    ELSE IF N[3] # M[3] THEN N[3] > M[3]
    ELSE IF N[2] # M[2] THEN N[2] > M[2]
    ELSE N[1] >= M[1]

\* The product of two digits, split at 14 bits, as two columns not yet
\* carried.
DigMul(x, y) ==
    LET Cols(lo, mid, hi) ==
            <<lo + (mid % 2^13) * 2^14, 2 * hi + (mid \div 2^13)>>
    IN  Cols((x % 2^14) * (y % 2^14),
             (x \div 2^14) * (y % 2^14) + (x % 2^14) * (y \div 2^14),
             (x \div 2^14) * (y \div 2^14))

\* (ah W + al) (bh W + bl)
MulN(ah, al, bh, bl) ==
    LET Cols(ll, lh, hl, hh) ==
            Carry(ll[1], ll[2] + lh[1] + hl[1], lh[2] + hl[2] + hh[1],
                  hh[2])
    IN  Cols(DigMul(al, bl), DigMul(al, bh), DigMul(ah, bl), DigMul(ah, bh))

\* The float of sign s and significand T + u <= 2^53 at exponent e, for
\* u = 0 or 1: a significand of 2^53 is 2^52 at the next exponent, and an
\* exponent above MaxExp overflows.
FinUp(s, T, u, e) ==
    LET Fin(hi, lo) ==
            IF hi = 0 /\ lo = 0 THEN Zero(s)
            ELSE IF hi >= 2^26
            THEN (IF e + 1 > MaxExp THEN Inf(s) ELSE <<s, 2^25, 0, e + 1>>)
            ELSE IF e > MaxExp THEN Inf(s)
            ELSE <<s, hi, lo, e>>
    IN  Fin(T[2] + ((T[1] + u) \div W), (T[1] + u) % W)

\* N with its low cut bits rounded away, or shifted up for cut <= 0: the
\* bits below cut, followed by more if sticky, round to the nearest, ties
\* to even.
RoundCut(s, N, E, sticky, cut) ==
    FinUp(s, IF cut <= 0 THEN ShL(N, 0 - cut) ELSE ShR(N, cut),
          IF /\ cut > 0
             /\ Bit(N, cut - 1) = 1
             /\ (sticky \/ LowNonZero(N, cut - 1) \/ Bit(N, cut) = 1)
          THEN 1 ELSE 0,
          E + cut)

\* The float nearest to (-1)^s (N + f) 2^E, with 0 < f < 1 if sticky and
\* f = 0 if not: 53 bits are kept, fewer where the exponent would fall
\* below MinExp.
Round(s, N, E, sticky) ==
    RoundCut(s, N, E, sticky, Max(BitLen(N) - 53, MinExp - E))

Sig(x) == <<x[3], x[2], 0, 0>>
SignXor(x, y) == (x[1] + y[1]) % 2

RNeg(x) == IF IsNumber(x) THEN <<1 - x[1], x[2], x[3], x[4]>> ELSE x

\* A short float: a normal number whose significand is 13 bits, Top(x),
\* followed by zeros.  Products and sums of short floats are worked out in
\* machine integers where they are exact and well inside the exponent range.
Short(x) == x[3] = 0 /\ x[2] >= 2^25 /\ x[2] % 2^13 = 0
Top(x) == x[2] \div 2^13

\* The float of sign s and value m 2^(e + 40), for 0 < m < 2^27 of L bits.
ShortFloat(s, m, L, e) ==
    <<s, IF L = 27 THEN m \div 2 ELSE m * 2^(26 - L),
      IF L = 27 THEN (m % 2) * 2^26 ELSE 0, e + L - 13>>

\* The float of an integer, which is exact: an integer of the model has 31
\* bits at most.
\*   Of: the float of sign s and magnitude m > 0.
\*   Wide: the same for m of L > 27 bits.
Z(n) ==
    LET Wide(s, m, L) ==
            <<s, m \div 2^(L - 26), (m % 2^(L - 26)) * 2^(53 - L), L - 53>>
        Of(s, m) ==
            IF m < 2^27 THEN ShortFloat(s, m, BL27(m), 0 - 40)
            ELSE Wide(s, m, 27 + BL27(m \div 2^27))
    IN  IF n = 0 THEN Zero(0)
        ELSE IF n < 0 THEN Of(1, 0 - n)
        ELSE Of(0, n)

\* x * y
RMul(x, y) ==
    IF ~IsNumber(x) \/ ~IsNumber(y) THEN NaN
    ELSE IF IsInf(x) \/ IsInf(y)
    THEN (IF IsZero(x) \/ IsZero(y) THEN NaN ELSE Inf(SignXor(x, y)))
    ELSE IF IsZero(x) \/ IsZero(y) THEN Zero(SignXor(x, y))
    ELSE IF /\ Short(x) /\ Short(y)
            /\ x[4] + y[4] + 52 >= MinExp /\ x[4] + y[4] + 53 <= MaxExp
    THEN ShortFloat(SignXor(x, y), Top(x) * Top(y),
                    IF Top(x) * Top(y) >= 2^25 THEN 26 ELSE 25,
                    x[4] + y[4] + 40)
    ELSE Round(SignXor(x, y), MulN(x[2], x[3], y[2], y[3]), x[4] + y[4],
               FALSE)

\* A 2^E of sign sa plus B 2^E of sign sb; keep says that the sign of the
\* sum is sa.  Equal magnitudes of opposite signs sum to +0.
AddAligned(sa, A, sb, B, E, sticky) ==
    LET keep == sa = sb \/ GeN(A, B)
    IN  IF sa # sb /\ A = B THEN Zero(0)
        ELSE Round(IF keep THEN sa ELSE sb,
                   Mag(IF keep THEN A ELSE B, IF keep THEN B ELSE A,
                       IF sa = sb THEN 1 ELSE 0 - 1),
                   E, sticky)

\* x + y for finite non-zero x and y, the exponent of x not the lower.  A
\* y below a quarter of the last place of x counts as a sticky bit only.
AddFar(x, y, far) ==
    AddAligned(x[1], ShL(Sig(x), IF far THEN 2 ELSE x[4] - y[4]),
               y[1],
               IF ~far THEN Sig(y)
               ELSE IF x[1] = y[1] THEN <<0, 0, 0, 0>> ELSE <<1, 0, 0, 0>>,
               IF far THEN x[4] - 2 ELSE y[4],
               far)

\* x + y for finite non-zero x and y, the exponent of x not the lower.
\*   Shorts: the sum m 2^(e + 40) of two short floats of signs sx and sy,
\*     m < 0 where the second outweighs the first.
AddOrd(x, y) ==
    LET Shorts(sx, sy, m, e) ==
            IF m = 0 THEN Zero(0)
            ELSE IF m < 0 THEN ShortFloat(sy, 0 - m, BL27(0 - m), e)
            ELSE ShortFloat(sx, m, BL27(m), e)
    IN  IF /\ Short(x) /\ Short(y) /\ x[4] - y[4] <= 13
           /\ y[4] >= MinExp + 13 /\ x[4] <= MaxExp - 2
        THEN Shorts(x[1], y[1],
                    Top(x) * 2^(x[4] - y[4])
                        + (IF x[1] = y[1] THEN Top(y) ELSE 0 - Top(y)),
                    y[4])
        ELSE AddFar(x, y, x[4] - y[4] > 54)

\* x + y
RAdd(x, y) ==
    IF ~IsNumber(x) \/ ~IsNumber(y) THEN NaN
    ELSE IF IsInf(x) THEN (IF IsInf(y) /\ x[1] # y[1] THEN NaN ELSE x)
    ELSE IF IsInf(y) THEN y
    ELSE IF IsZero(x) THEN (IF IsZero(y) THEN Zero(x[1] * y[1]) ELSE y)
    ELSE IF IsZero(y) THEN x
    ELSE AddOrd(IF x[4] >= y[4] THEN x ELSE y, IF x[4] >= y[4] THEN y ELSE x)

RSub(x, y) == RAdd(x, RNeg(y))

\* Long division, 14 bits of the quotient at a step.  R is the remainder,
\* below the divisor B, and qs the digits found: one bit, then four times
\* 14.
\*   DivFix: the step after the digit e, made e + 1 where B still goes
\*     into the remainder R.
\*   Est: the next digit or one less, from the leading bits of R and B.
\*   Rem: R 2^14 - e B
\*   Quot: the quotient of the digits qs.
RECURSIVE DivStep(_, _, _)
DivFix(R, B, qs, e) ==
    DivStep(IF GeN(R, B) THEN Mag(R, B, 0 - 1) ELSE R, B,
            Append(qs, IF GeN(R, B) THEN e + 1 ELSE e))
DivStep(R, B, qs) ==
    LET Est == ((R[1] \div 2^23) + R[2] * 2^4) \div ((B[2] \div 2^10) + 1)
        Rem(e) ==
            Carry((R[1] % 2^13) * 2^14 - e * (B[1] % 2^14)
                      - ((e * (B[1] \div 2^14)) % 2^13) * 2^14,
                  (R[1] \div 2^13) + (R[2] % 2^13) * 2^14
                      - ((e * (B[1] \div 2^14)) \div 2^13)
                      - e * (B[2] % 2^14)
                      - ((e * (B[2] \div 2^14)) % 2^13) * 2^14,
                  (R[2] \div 2^13) - ((e * (B[2] \div 2^14)) \div 2^13),
                  0)
        Quot ==
            <<qs[5] + (qs[4] % 2^13) * 2^14,
              (qs[4] \div 2^13) + qs[3] * 2 + (qs[2] % 2^12) * 2^15,
              (qs[2] \div 2^12) + qs[1] * 4,
              0>>
    IN  IF Len(qs) = 5 THEN <<Quot, R>>
        ELSE DivFix(Rem(Est), B, qs, Est)

\* A 2^56 \div B and the remainder, for significands A and B of 53 bits.
DivMod(A, B) ==
    DivStep(IF GeN(A, B) THEN Mag(A, B, 0 - 1) ELSE A, B,
            <<IF GeN(A, B) THEN 1 ELSE 0>>)

RoundQuotient(s, qr, E) == Round(s, qr[1], E, qr[2] # <<0, 0, 0, 0>>)

\* The significand brought to 53 bits, and the exponent that goes with it.
Sig53(x) == ShL(Sig(x), 53 - BitLen(Sig(x)))
Exp53(x) == x[4] - (53 - BitLen(Sig(x)))

\* x / y; a zero divisor gives an infinity or NaN, as numpy does.  By a
\* power of 2 only the exponent of a normal x changes.
RDiv(x, y) ==
    IF ~IsNumber(x) \/ ~IsNumber(y) THEN NaN
    ELSE IF IsInf(x) THEN (IF IsInf(y) THEN NaN ELSE Inf(SignXor(x, y)))
    ELSE IF IsInf(y) THEN Zero(SignXor(x, y))
    ELSE IF IsZero(y) THEN (IF IsZero(x) THEN NaN ELSE Inf(SignXor(x, y)))
    ELSE IF IsZero(x) THEN Zero(SignXor(x, y))
    ELSE IF /\ y[2] = 2^25 /\ y[3] = 0 /\ x[2] >= 2^25
            /\ x[4] - y[4] - 52 >= MinExp /\ x[4] - y[4] - 52 <= MaxExp
    THEN <<SignXor(x, y), x[2], x[3], x[4] - y[4] - 52>>
    ELSE RoundQuotient(SignXor(x, y), DivMod(Sig53(x), Sig53(y)),
                       Exp53(x) - Exp53(y) - 56)

\* The float nearest to n/d.
Q(n, d) == RDiv(Z(n), Z(d))

One == Z(1)
Half == <<0, 2^25, 0, 0 - 53>>

\* x = SigEven(x) 2^ExpEven(x), at an even exponent.
SigEven(x) == ShL(Sig53(x), Exp53(x) % 2)
ExpEven(x) == Exp53(x) - (Exp53(x) % 2)

\* SigEven(x) 2^-52, in [1, 4)
Scaled(x) == <<0, Sig53(x)[2], Sig53(x)[1], (Exp53(x) % 2) - 52>>

\* Newton's iteration for the square root of y, n steps from s.
RECURSIVE Newton(_, _, _)
Newton(y, s, n) ==
    IF n = 0 \/ ~IsFinite(s) THEN s
    ELSE Newton(y, RMul(Half, RAdd(s, RDiv(y, s))), n - 1)

\* The square root of y in [1, 4) to within a few units in the last
\* place: six steps from (y + 1)/2.
Estimate(y) == Newton(y, RMul(Half, RAdd(y, One)), 6)

\* The float s as a multiple of 2^-k
Units(s, k) == ShL(Sig(s), s[4] + k)

Plus(N, k) == Carry(N[1] + k, N[2], N[3], N[4])
Sq(c) == MulN(c[2], c[1], c[2], c[1])

\* The top digit of the six of P (h W + l).
TopDigit(P, h, l) ==
    LET Cy(a, b) == b + (a \div W)
        Cols(l1, l2, l3, l4, h1, h2, h3, h4) ==
            Cy(Cy(Cy(Cy(Cy(l1[1],
                           l1[2] + l2[1] + h1[1]),
                        l2[2] + l3[1] + h1[2] + h2[1]),
                     l3[2] + l4[1] + h2[2] + h3[1]),
                  l4[2] + h3[2] + h4[1]),
               h4[2])
    IN  Cols(DigMul(P[1], l), DigMul(P[2], l), DigMul(P[3], l),
             DigMul(P[4], l), DigMul(P[1], h), DigMul(P[2], h),
             DigMul(P[3], h), DigMul(P[4], h))

\* c is not above the integer part of the square root of N (inv false),
\* or of 2^80 over the square root of N (inv true, N no power of 2): c c N
\* is below 2^160, which the top digit of the product tells.
Fits(c, N, inv) ==
    IF inv THEN TopDigit(Sq(c), N[2], N[1]) < 2^25
    ELSE GeN(ShL(N, 52), Sq(c))

\* The greatest c that fits, near the estimate m.
Root(N, m, inv) ==
    Plus(m, CHOOSE k \in (0 - 4)..4 :
                Fits(Plus(m, k), N, inv) /\ ~Fits(Plus(m, k + 1), N, inv))

\* The estimate the search for the root starts from, in units of 2^-52
\* for the square root and of 2^-54 for its inverse.
Seed(est, inv) ==
    Units(IF inv THEN RDiv(One, est) ELSE est, IF inv THEN 54 ELSE 52)

\* The float next to (-1)^s (N + f) 2^E toward zero (up false) or away
\* from zero (up true), and the value itself where it is a float; 0 < f < 1
\* if sticky, N then having 53 bits at least, and f = 0 if not.
RoundTo(s, N, E, sticky, up) ==
    LET Cut(cut) ==
            FinUp(s, IF cut <= 0 THEN ShL(N, 0 - cut) ELSE ShR(N, cut),
                  IF up /\ (sticky \/ (cut > 0 /\ LowNonZero(N, cut)))
                  THEN 1 ELSE 0,
                  E + cut)
    IN  Cut(Max(BitLen(N) - 53, MinExp - E))

\* The float next below (up false) or next above (up true) the square
\* root of a finite x > 0 (inv false) or one over it (inv true), given the
\* root r that Root finds, and the value itself where it is a float: the
\* square root of r r, and one over the square root of a power of 4.
Rooted(x, r, inv, up) ==
    IF inv /\ SigEven(x) = <<0, 2^25, 0, 0>>
    THEN <<0, 2^25, 0, 0 - (ExpEven(x) \div 2) - 78>>
    ELSE RoundTo(0, r,
                 IF inv THEN 0 - (ExpEven(x) \div 2) - 80
                 ELSE (ExpEven(x) - 52) \div 2,
                 inv \/ ShL(SigEven(x), 52) # Sq(r), up)

\* x ** y for a finite x > 0, as far as Python and C define it: a float
\* next to the exact power, the one below it (up false) or above it (up
\* true), and the power itself where it is a float.  The exponents are
\* those the model computes, 1, -1, 2, 0.5 and -0.5; no other has a value.
PowTo(x, y, up) ==
    IF y = One THEN x
    ELSE IF y = RNeg(One)
    THEN LET qr == DivMod(Sig53(One), Sig53(x))
         IN  RoundTo(0, qr[1], 0 - Exp53(x) - 108, qr[2] # <<0, 0, 0, 0>>,
                     up)
    ELSE IF y = Z(2)
    THEN RoundTo(0, MulN(x[2], x[3], x[2], x[3]), 2 * x[4], FALSE, up)
    ELSE IF y = Half \/ y = RNeg(Half)
    THEN Rooted(x, Root(SigEven(x), Seed(Estimate(Scaled(x)), y[1] = 1),
                        y[1] = 1),
                y[1] = 1, up)
    ELSE CHOOSE v \in {} : TRUE

\* A Python float object, as opposed to a numpy float64: the same values,
\* marked by a fifth component.  Tag gives the value v the type, Float64
\* is np.float64(v).
Py(x) == <<x[1], x[2], x[3], x[4], 1>>
Float64(x) == <<x[1], x[2], x[3], x[4]>>
Tag(py, v) == IF py THEN Py(v) ELSE Float64(v)

\* A complex number, which the model tells from the floats and no more.
Complex == <<0, 0 - 1, 4, 0>>

\* x ** y on a cell of an object column: Python's float power if the cell
\* x is a Python float (py), the C library's pow if it is a numpy float64.
\* The outcomes are the values v the power may have, err then "none", and
\* the exceptions raised.  Where the power is not a float the C library
\* returns a float next to it, which one depending on the library, so that
\* both are outcomes.  A zero to a negative power, a root of a negative
\* number and an overflow are an infinity, NaN and an infinity in C, and an
\* exception, a complex number and an exception in Python.
\*   int, odd: y is an integer, an odd one
\*   big: |x| > 1
\*   s: the sign of the power
Power(x, y, py) ==
    LET Val(v) == [err |-> "none", v |-> Tag(py, v)]
        Exc(e) == [err |-> e, v |-> NaN]
        mag == <<0, x[2], x[3], x[4]>>
        int == \/ y[4] >= 0
               \/ y[4] > 0 - 53 /\ ~LowNonZero(Sig(y), 0 - y[4])
        odd == int /\ y[4] <= 0 /\ Bit(Sig(y), 0 - y[4]) = 1
        big == ~IsZero(RSub(mag, One)) /\ RSub(mag, One)[1] = 0
        s == IF odd THEN x[1] ELSE 0
        Lib(v) == IF py /\ IsInf(v) THEN Exc("OverflowError")
                  ELSE Val(<<s, v[2], v[3], v[4]>>)
    IN  IF IsZero(y) THEN {Val(One)}
        ELSE IF IsNaN(x) THEN {Val(NaN)}
        ELSE IF IsNaN(y) THEN {Val(IF Float64(x) = One THEN One ELSE NaN)}
        ELSE IF IsInf(y)
        THEN {Val(IF mag = One THEN One
                  ELSE IF (y[1] = 0) = big THEN Inf(0) ELSE Zero(0))}
        ELSE IF IsInf(x) THEN {Val(IF y[1] = 0 THEN Inf(s) ELSE Zero(s))}
        ELSE IF IsZero(x)
        THEN {IF y[1] = 0 THEN Val(Zero(s))
              ELSE IF py THEN Exc("ZeroDivisionError")
              ELSE Val(Inf(s))}
        ELSE IF x[1] = 1 /\ ~int
        THEN {IF py THEN [err |-> "none", v |-> Complex] ELSE Val(NaN)}
        ELSE IF mag = One THEN {Val(<<s, One[2], One[3], One[4]>>)}
        ELSE {Lib(PowTo(mag, y, up)) : up \in BOOLEAN}

-----------------------------------------------------------------------------
(* Series and tables.                                                      *)

\* The index of a table, in row order.
Index(d) == [i \in 1..Len(d) |-> d[i].period]

Labels(d) == {d[i].period : i \in 1..Len(d)}

\* pd.Series(data): a positional index 0..N-1.
SeriesOf(data) == [i \in 1..Len(data) |-> [k |-> i - 1, v |-> data[i]]]

\* pd.Series(index=idx, data=scalar): the scalar at every label of idx.
Broadcast(idx, x) == [i \in 1..Len(idx) |-> [k |-> idx[i], v |-> x]]

\* The value a Series holds at label y once aligned to an index that has y:
\* NaN where the Series has no such label.
Aligned(p, y) ==
    IF \E i \in 1..Len(p) : p[i].k = y
    THEN p[CHOOSE i \in 1..Len(p) : p[i].k = y].v
    ELSE NaN

\* any(p.isna())
AnyNa(p) == \E i \in 1..Len(p) : IsNaN(p[i].v)

\* The position of the row with label y.
Pos(d, y) == CHOOSE i \in 1..Len(d) : d[i].period = y

\* d.at[y, col]
At(d, y, col) == d[Pos(d, y)][col]

\* sorted(s) of a set of integers, ascending.
RECURSIVE SortedSeq(_)
SortedSeq(s) ==
    IF s = {} THEN <<>>
    ELSE LET m == CHOOSE x \in s : \A z \in s : x <= z
         IN  <<m>> \o SortedSeq(s \ {m})

\* seq[:-1]
ButLast(s) == IF Len(s) = 0 THEN <<>> ELSE SubSeq(s, 1, Len(s) - 1)

Reverse(s) == [i \in 1..Len(s) |-> s[Len(s) + 1 - i]]


-----------------------------------------------------------------------------
(* evaluate(p, exo, pars): the model for one guess of the price path.      *)

SetAt(d, y, col, v) == [d EXCEPT ![Pos(d, y)][col] = v]

\* d.at[y, col] = v where the index has no label y: pandas appends a row,
\* NaN in every other column.
Enlarge(d, y, col, v) ==
    Append(d, [c \in DOMAIN d[1] |->
                  IF c = "period" THEN y ELSE IF c = col THEN v ELSE NaN])

\* Lines 83-109: the exogenous columns, the aligned price guess, the
\* intra-temporal results, the steady state, and lam and cap set to None.
IntraRow(x, pv, pars) ==
    LET p_net  == RMul(pv, RAdd(One, x.sub))
        pk_net == RMul(pars.pk, RSub(One, x.itc))
        gamma  == RDiv(RMul(RMul(p_net, p_net), RMul(x.a, x.a)),
                       RMul(Z(4), pars.w))
        rd     == RAdd(pars.r, pars.delta)
        inv_ss == RDiv(RSub(RDiv(gamma, rd), pk_net), RMul(Z(2), pars.w))
    IN  [period |-> x.period, a |-> x.a, sub |-> x.sub, itc |-> x.itc,
         td |-> x.td, p |-> pv, p_net |-> p_net, pk_net |-> pk_net,
         gamma |-> gamma,
         lam_ss |-> RDiv(RMul(gamma, RSub(One, x.td)), rd),
         inv_ss |-> inv_ss,
         cap_ss |-> RDiv(inv_ss, pars.delta),
         lam |-> None, cap |-> None]

\* Boundary with the capital taken from the global default cap0 (4.0 in
\* the model's model.toml) rather than from pars['cap0'].
Boundary_GlobalCap(d, first_yr, last_yr, pars) ==
    SetAt(SetAt(d, last_yr, "lam", At(d, last_yr, "lam_ss")),
          first_yr, "cap", Py(Z(4)))

\* Lines 113-114: the boundary conditions.
Boundary(d, first_yr, last_yr, pars) ==
    SetAt(SetAt(d, last_yr, "lam", At(d, last_yr, "lam_ss")),
          first_yr, "cap", pars.cap0)

\* ThisLam without the discounting by 1 + r + delta.
ThisLam_NoDiscount(d, y, next_lam, pars) ==
    RAdd(next_lam, RMul(At(d, y, "gamma"), RSub(One, At(d, y, "td"))))

\* Line 122: lambda of period y from lambda of the next period.
ThisLam(d, y, next_lam, pars) ==
    RDiv(RAdd(next_lam, RMul(At(d, y, "gamma"), RSub(One, At(d, y, "td")))),
         RAdd(RAdd(One, pars.r), pars.delta))

\* Lines 120-123: walk rev_years from position i on.
RECURSIVE Backward(_, _, _, _)
Backward(d, rev_years, i, pars) ==
    IF i > Len(rev_years) THEN [err |-> "none", d |-> d]
    ELSE LET y == rev_years[i]
         IN  IF (y + 1) \notin Labels(d) THEN [err |-> "KeyError", d |-> d]
             ELSE Backward(SetAt(d, y, "lam",
                                 ThisLam(d, y, At(d, y + 1, "lam"), pars)),
                           rev_years, i + 1, pars)

\* Line 127: investment of one row given lambda.
InvOf(row, pars) ==
    RDiv(RSub(RDiv(row.lam, RSub(One, row.td)), row.pk_net),
         RMul(Z(2), pars.w))

\* NextCap without depreciation.
NextCap_NoDepreciation(this_inv, this_cap, pars) == RAdd(this_inv, this_cap)

\* Line 134: next period's capital stock.
NextCap(this_inv, this_cap, pars) ==
    RAdd(this_inv, RMul(RSub(One, pars.delta), this_cap))

\* Lines 131-135: walk years[:-1] from position i on.
RECURSIVE Forward(_, _, _, _)
Forward(d, fwd_years, i, pars) ==
    IF i > Len(fwd_years) THEN d
    ELSE LET y == fwd_years[i]
             next_cap == NextCap(At(d, y, "inv"), At(d, y, "cap"), pars)
         IN  Forward(IF (y + 1) \in Labels(d)
                     THEN SetAt(d, y + 1, "cap", next_cap)
                     ELSE Enlarge(d, y + 1, "cap", next_cap),
                     fwd_years, i + 1, pars)

\* Lines 139-147 at one row: output, revenues, the market price and the
\* miss distance; pv is the price guess aligned to the row's period.  The
\* cap column holds objects, so these are computed cell by cell.  cap of
\* the first period is pars['cap0'] itself: where that is a Python float
\* (py) so is the row's q, and a zero 2*w or scale raises
\* ZeroDivisionError; everywhere else cap is a numpy float64.  1/elast is a
\* division of Python numbers.
\*   Out: the row, given the outcome pw of the power.
OutputRow(row, pv, pars) ==
    LET py == Len(row.cap) = 5
        q == Tag(py, RDiv(RMul(RMul(row.p_net, RMul(row.a, row.a)),
                               row.cap),
                          RMul(Z(2), pars.w)))
        Out(pw) ==
            [err |-> pw.err,
             row |-> row @@ [q |-> q,
                             rev_ptc |-> Tag(py, RMul(RMul(row.sub, pv), q)),
                             rev_itc |-> RMul(RMul(row.itc, pars.pk),
                                              row.inv),
                             p_market |-> pw.v,
                             p_diff |-> IF pw.v = Complex THEN Complex
                                        ELSE Tag(py, RSub(pw.v, pv))]]
    IN  IF \/ py /\ (IsZero(RMul(Z(2), pars.w)) \/ IsZero(pars.scale))
           \/ IsZero(pars.elast)
        THEN {[err |-> "ZeroDivisionError", row |-> row]}
        ELSE {Out(pw) : pw \in Power(RDiv(q, pars.scale),
                                     RDiv(One, pars.elast), py)}

\* Line 87 on a table without rows: pandas gives the table the index of
\* the guess, NaN in every exogenous column.
Frame(p, exo) ==
    IF Len(exo) > 0 THEN exo
    ELSE [i \in 1..Len(p) |->
             [period |-> p[i].k, a |-> NaN, sub |-> NaN, itc |-> NaN,
              td |-> NaN]]

\* Lines 83-109 for every row of d (\o <<>>: the rows as a tuple, each
\* computed once).
IntraTable(p, d, pars) ==
    [i \in 1..Len(d) |-> IntraRow(d[i], Aligned(p, d[i].period), pars)]
      \o <<>>

\* Line 127 for every row.
WithInv(d, pars) ==
    [i \in 1..Len(d) |-> d[i] @@ [inv |-> InvOf(d[i], pars)]] \o <<>>

\* Lines 139-151 for the rows 1..i of d: the tables that may be returned
\* and the exceptions that may be raised.
RECURSIVE WithOutput(_, _, _, _)
WithOutput(d, p, pars, i) ==
    IF i = 0 THEN {[err |-> "none", d |-> <<>>]}
    ELSE {IF t.err # "none" THEN t
          ELSE IF o.err # "none" THEN [err |-> o.err, d |-> <<>>]
          ELSE [err |-> "none", d |-> Append(t.d, o.row)] :
            t \in WithOutput(d, p, pars, i - 1),
            o \in OutputRow(d[i], Aligned(p, d[i].period), pars)}

\* Lines 125-151, given the outcome b of the backward walk.
AfterBackward(b, years, p, pars) ==
    IF b.err # "none" THEN {[err |-> b.err, d |-> <<>>]}
    ELSE WithOutput(Forward(WithInv(b.d, pars), ButLast(years), 1, pars),
                    p, pars, Len(b.d))

\* Lines 104-151, given the table d built so far and its sorted years.
Recursions(d, years, p, pars) ==
    AfterBackward(Backward(Boundary(d, years[1], years[Len(years)], pars),
                           Reverse(ButLast(years)), 1, pars),
                  years, p, pars)

\* The outcomes of a call: err is "none" and d the returned table, or err
\* is the exception raised.
evaluate(p, exo, pars) ==
    IF Len(p) = 0 THEN {[err |-> "IndexError", d |-> <<>>]}
    ELSE IF AnyNa(p) THEN {[err |-> "AssertionError", d |-> <<>>]}
    ELSE Recursions(IntraTable(p, Frame(p, exo), pars),
                    SortedSeq(Labels(Frame(p, exo))), p, pars)

-----------------------------------------------------------------------------
(* miss_all and miss_one: the residual functions handed to opt.root.       *)

\* The values of a column, in row order.
Column(d, col) == [i \in 1..Len(d) |-> d[i][col]]

\* miss_all returns res['p_diff'], given the outcome res of evaluate.
AllDiffs(res) ==
    IF res.err # "none" THEN [err |-> res.err, fun |-> <<>>]
    ELSE [err |-> "none", fun |-> Column(res.d, "p_diff")]

miss_all(p_guess, exo, pars) ==
    {AllDiffs(res) : res \in evaluate(SeriesOf(p_guess), exo, pars)}

\* miss_one returns res.at[0,'p_diff'], given the outcome res of evaluate.
FirstDiff(res) ==
    IF res.err # "none" THEN [err |-> res.err, fun |-> <<>>]
    ELSE IF 0 \notin Labels(res.d) THEN [err |-> "KeyError", fun |-> <<>>]
    ELSE [err |-> "none", fun |-> <<At(res.d, 0, "p_diff")>>]

miss_one(p_guess, exo, pars) ==
    {FirstDiff(res) :
        res \in evaluate(Broadcast(Index(exo), p_guess[1]), exo, pars)}

-----------------------------------------------------------------------------
(* Files.  Python's string operations on the file names, tabulated over    *)
(* the names of the model's input directory.                               *)

DirEntries == {"r01-baseline.xlsx", "r02-reform.xlsx", "readme.txt"}

\* f.endswith('.xlsx') and f[0]=='r'
IsSimulation(f) == f \in {"r01-baseline.xlsx", "r02-reform.xlsx"}

\* os.path.splitext(f)[0]
Stem(f) ==
    CASE f = "r01-baseline.xlsx" -> "r01-baseline"
      [] f = "r02-reform.xlsx" -> "r02-reform"
      [] OTHER -> "readme"

\* f[:3]
RunOf(f) ==
    CASE f = "r01-baseline.xlsx" -> "r01"
      [] f = "r02-reform.xlsx" -> "r02"
      [] OTHER -> "rea"

\* 'baseline' in f
IsBaseline(f) == f = "r01-baseline.xlsx"

Stems == {"r01-baseline", "r02-reform"}

\* [f for f in files if ...]: a list filtered in order.
RECURSIVE Filter(_)
Filter(fs) ==
    IF Len(fs) = 0 THEN <<>>
    ELSE (IF IsSimulation(Head(fs)) THEN <<Head(fs)>> ELSE <<>>)
         \o Filter(Tail(fs))

\* d.to_csv(o_name): None and NaN are written as empty cells, a Python
\* float and a numpy float64 of the same value as the same text.
Empty == <<0, 0 - 1, 3, 0>>
ToCsvCell(v) == IF IsNone(v) \/ IsNaN(v) THEN Empty ELSE Float64(v)
ToCsv(d) ==
    [i \in 1..Len(d) |->
        [c \in DOMAIN d[i] |->
            IF c = "period" THEN d[i][c] ELSE ToCsvCell(d[i][c])]]

\* pd.read_csv(basefile, index_col='period'): empty cells are read as NaN.
ReadCsvCell(v) == IF v = Empty THEN NaN ELSE v
ReadCsv(t) ==
    [i \in 1..Len(t) |->
        [c \in DOMAIN t[i] |->
            IF c = "period" THEN t[i][c] ELSE ReadCsvCell(t[i][c])]]

-----------------------------------------------------------------------------
(* The configurations and inputs the model explores.                       *)

\* The longest short exogenous table, and the most residual evaluations one
\* root-find makes.
MaxLen == 3
MaxCalls == 2

\* The period whose capital stock the baseline summary reports (line 429).
Year10 == 10

\* The labels s, s+1, ..., s+n-1.
Span(s, n) == [i \in 1..n |-> s + i - 1]

\* Period indexes of the two spreadsheets, the baseline's first.  Both
\* the same: from 0 with 1..MaxLen periods, not from 0, from 0 through
\* year 10.  Different: the baseline not from 0 and a longer reform from
\* 0, the baseline from 0 and the reform not, or shorter.
IndexPairs ==
    {<<idx, idx>> : idx \in {Span(0, n) : n \in 1..MaxLen}
                             \cup {Span(1, MaxLen), Span(0, Year10 + 1)}}
        \cup {<<Span(1, MaxLen), Span(0, MaxLen + 1)>>,
              <<Span(0, MaxLen), Span(1, MaxLen)>>,
              <<Span(0, MaxLen), Span(0, MaxLen - 1)>>}

ExoRow(y, a, sub, itc, td) ==
    [period |-> y, a |-> a, sub |-> sub, itc |-> itc, td |-> td]

\* The spreadsheet of each simulation over a period index.
ExoOf(f, idx) ==
    [i \in 1..Len(idx) |->
        ExoRow(idx[i],
               IF i = 1 THEN Z(2) ELSE Z(1),
               IF IsBaseline(f) THEN Z(0) ELSE Q(1, 2),
               IF IsBaseline(f) \/ i = 1 THEN Z(0) ELSE Q(1, 2),
               Q(1, 2))]

\* model.toml: the parameters, the initial price and capital.  What
\* tomllib reads is a Python float.
TomlPars ==
    [r |-> Q(1, 2), delta |-> Q(1, 2), w |-> Q(1, 4), pk |-> Z(1),
     elast |-> Z(1), scale |-> Z(1)]
p0 == Z(1)
cap0 == Py(Z(4))

\* model.toml: the [roll] table, no rolling run or r02 rolled onto the
\* baseline at a join year, with or without its own cap0.
OverrideCap == Py(Z(8))
RollChoices ==
    {<<>>}
    \cup {[r02 |-> [base |-> "r01-baseline", year |-> j, has_cap0 |-> h,
                    cap0 |-> OverrideCap]] : j \in {0, 1, Year10},
                                            h \in BOOLEAN}

\* run in roll
InRoll(run, rollcfg) == run \in DOMAIN rollcfg

\* The guesses of n prices the root-finder may pass to the residual
\* function: constant paths, a path whose first price differs, and a path
\* of NaN (the step computed from a non-finite residual).
Guesses(n) ==
    {[i \in 1..n |-> x] : x \in {Z(1), Z(2), NaN}}
        \cup {[i \in 1..n |-> IF i = 1 THEN Z(2) ELSE Z(1)]}

AllFinite(fun) == \A i \in 1..Len(fun) : IsFinite(fun[i])

NoFile == [exists |-> FALSE, rows |-> <<>>]

\* The output files an earlier batch may have left: the tables of the
\* simulation at the initial price and capital.
FileOf(res) ==
    IF res.err = "none" THEN [exists |-> TRUE, rows |-> ToCsv(res.d)]
    ELSE NoFile
EarlierOutput(f, idx) ==
    {FileOf(res) : res \in evaluate(Broadcast(idx, p0), ExoOf(f, idx),
                                    TomlPars @@ [cap0 |-> cap0])}

\* The output directory as the batch finds it: empty, the baseline's output
\* only, or both outputs; idx[1] is the baseline's period index and idx[2]
\* the reform's.
OutdirChoices(idx) ==
    LET left == [s \in Stems |->
                    EarlierOutput(CHOOSE f \in DirEntries : Stem(f) = s,
                                  IF s = "r01-baseline" THEN idx[1]
                                  ELSE idx[2])]
    IN  {[s \in Stems |-> IF s \in done THEN out[s] ELSE NoFile] :
            done \in {{}, {"r01-baseline"}, {"r01-baseline", "r02-reform"}},
            out \in {o \in [Stems -> UNION {left[s] : s \in Stems}] :
                        \A s \in Stems : o[s] \in left[s]}}

\* The orders os.listdir may return the directory in.
Listings ==
    {l \in [1..Cardinality(DirEntries) -> DirEntries] :
        \A i, j \in DOMAIN l : i # j => l[i] # l[j]}

-----------------------------------------------------------------------------
(* The main program.                                                       *)

VARIABLES
    endog_p, base_only, force, roll, inertial,  \* run controls (model.toml)
    inputs,     \* input directory: file name -> spreadsheet
    outdir,     \* output directory: stem -> [exists, rows]
    files,      \* the list of files the loop walks
    fi,         \* position in files of the current file
    pc,         \* where the program is
    err,        \* the exception that ended the program, or "none"
    pars,       \* the shared parameter dictionary
    exo, p, n_it, sol, d, roll_base, roll_yrs,  \* the program's variables
    work,       \* opt.root's own: its point x and the residual fun there
    summary,    \* the baseline summary figures logged
    hRun,       \* history: the current run's events
    hWritten    \* history: the stems written by this batch, in order

config == <<endog_p, base_only, force, roll, inertial, inputs>>
locals ==
    <<pars, exo, p, n_it, sol, work, d, roll_base, roll_yrs, summary>>
vars == <<config, outdir, files, fi, pc, err, locals, hRun, hWritten>>

\* The history of the file the loop is at:
\*   existed      its output file existed when the loop reached it
\*   skipped      the loop went on to the next file without running it
\*   calls        calls of evaluate so far
\*   roots        calls of opt.root so far
\*   returned     opt.root has returned
\*   cap_set      pars['cap0'] has been set for this run
\*   cap_src      where it came from: "default", "base" or "override"
\*   base_opened  the run tried to read the base run's output file
\*   base_done    the loop had been through the base run's file by then
\*   base_read    the run looked up the base run's cap at the join year
\*   merged       the rolling merge has been done
\*   saved        the run's table has been written
FreshRun ==
    [existed |-> FALSE, skipped |-> FALSE, calls |-> 0, roots |-> 0,
     returned |-> FALSE, cap_set |-> FALSE, cap_src |-> "unset",
     base_opened |-> FALSE, base_done |-> FALSE, base_read |-> FALSE,
     merged |-> FALSE, saved |-> FALSE]

Init ==
    /\ \E idx \in IndexPairs :
          /\ inputs = [f \in {g \in DirEntries : IsSimulation(g)} |->
                          ExoOf(f, IF IsBaseline(f) THEN idx[1]
                                   ELSE idx[2])]
          /\ outdir \in OutdirChoices(idx)
    /\ endog_p \in BOOLEAN
    /\ base_only \in BOOLEAN
    /\ force \in BOOLEAN
    /\ roll \in RollChoices
    /\ inertial \in {{}, {"r02"}}
    /\ files = <<>>
    /\ fi = 0
    /\ pc = "listdir"
    /\ err = "none"
    /\ pars = TomlPars @@ [cap0 |-> None]
    /\ exo = <<>>
    /\ p = <<>>
    /\ n_it = 0
    /\ sol = [success |-> FALSE, x |-> <<>>, fun |-> <<>>]
    /\ work = [x |-> <<>>, fun |-> <<>>]
    /\ d = <<>>
    /\ roll_base = <<>>
    /\ roll_yrs = 0
    /\ summary = <<>>
    /\ hRun = FreshRun
    /\ hWritten = <<>>

\* An uncaught exception ends the program.
Raise(e) == /\ err' = e
            /\ pc' = "crashed"

\* Lines 292-296: list the input directory, keep the spreadsheets whose
\* names begin with "r"; with base_only the list is the baseline alone.
ListDir ==
    /\ pc = "listdir"
    /\ \E l \in Listings :
          files' = IF base_only THEN <<"r01-baseline.xlsx">> ELSE Filter(l)
    /\ fi' = 1
    /\ pc' = "loop"
    /\ UNCHANGED <<config, outdir, err, locals, hRun, hWritten>>

\* SkipTest without the base_only control.
SkipTest_NoBaseOnly(f) == outdir[Stem(f)].exists /\ ~force

\* os.path.exists(o_name) and not base_only and not force
SkipTest(f) == outdir[Stem(f)].exists /\ ~base_only /\ ~force

\* Line 303: the list is exhausted.
Finish ==
    /\ pc = "loop"
    /\ fi > Len(files)
    /\ pc' = "done"
    /\ UNCHANGED <<config, outdir, files, fi, err, locals, hRun, hWritten>>

\* Lines 316-320: the output file exists; go on to the next file.
Skip ==
    /\ pc = "loop"
    /\ fi <= Len(files)
    /\ SkipTest(files[fi])
    /\ fi' = fi + 1
    /\ hRun' = [FreshRun EXCEPT !.existed = outdir[Stem(files[fi])].exists,
                                !.skipped = TRUE]
    /\ UNCHANGED <<config, outdir, files, pc, err, locals, hWritten>>

\* Line 324: read the simulation definition.
ReadExo ==
    /\ pc = "loop"
    /\ fi <= Len(files)
    /\ ~SkipTest(files[fi])
    /\ exo' = inputs[files[fi]]
    /\ hRun' = [FreshRun EXCEPT !.existed = outdir[Stem(files[fi])].exists]
    /\ pc' = "cap"
    /\ UNCHANGED <<config, outdir, files, fi, err, pars, p, n_it, sol, work, d,
                   roll_base, roll_yrs, summary, hWritten>>

\* The current file and its run prefix.
CurFile == files[fi]
CurRun == RunOf(CurFile)

\* RollCap with the run's own cap0 ignored.
RollCap_IgnoreOverride(rollrun, out) ==
    IF ~out[rollrun.base].exists
    THEN [err |-> "FileNotFoundError", base |-> <<>>, cap0 |-> None,
          src |-> "unset", base_read |-> FALSE]
    ELSE IF rollrun.year \notin Labels(ReadCsv(out[rollrun.base].rows))
    THEN [err |-> "KeyError", base |-> ReadCsv(out[rollrun.base].rows),
          cap0 |-> None, src |-> "unset", base_read |-> TRUE]
    ELSE [err |-> "none", base |-> ReadCsv(out[rollrun.base].rows),
          cap0 |-> At(ReadCsv(out[rollrun.base].rows), rollrun.year, "cap"),
          src |-> "base", base_read |-> TRUE]

\* Lines 331-341: the initial capital of a rolling run.  res.err is the
\* exception raised, if any; base_read tells whether the baseline's output
\* was read (line 335) and its cap at the join year looked up (line 337).
RollCap(rollrun, out) ==
    LET prior == rollrun.base
        yrs == rollrun.year
    IN  IF ~out[prior].exists
        THEN [err |-> "FileNotFoundError", base |-> <<>>, cap0 |-> None,
              src |-> "unset", base_read |-> FALSE]
        ELSE LET base == ReadCsv(out[prior].rows)
             IN  IF yrs \notin Labels(base)
                 THEN [err |-> "KeyError", base |-> base, cap0 |-> None,
                       src |-> "unset", base_read |-> TRUE]
                 ELSE IF rollrun.has_cap0
                 THEN [err |-> "none", base |-> base, cap0 |-> rollrun.cap0,
                       src |-> "override", base_read |-> TRUE]
                 ELSE [err |-> "none", base |-> base,
                       cap0 |-> At(base, yrs, "cap"),
                       src |-> "base", base_read |-> TRUE]

\* AfterGuess with the root-finder run whatever endog_p is.
AfterGuess_AlwaysSolve == "solve"

\* Line 355: prices are solved for only if P needs to be endogenous.
AfterGuess == IF endog_p THEN "solve" ELSE "final"

\* DefaultCap with pars left as the earlier run set it.
DefaultCap_KeepEarlier(par, c) == par

\* Line 345: a run that is not rolling starts from the default capital.
DefaultCap(par, c) == [par EXCEPT !.cap0 = c]

\* Lines 328-353: set pars['cap0'], the initial price guess, and n_it.  A
\* run that stops at line 335 has assigned roll_yrs (line 332), one that
\* stops at line 337 roll_base as well.
SetCap ==
    /\ pc = "cap"
    /\ IF InRoll(CurRun, roll)
       THEN LET rc == RollCap(roll[CurRun], outdir)
                h == [hRun EXCEPT
                        !.base_opened = TRUE,
                        !.base_read = rc.base_read,
                        !.base_done =
                            \E i \in 1..(fi - 1) :
                                Stem(files[i]) = roll[CurRun].base]
            IN  IF rc.err # "none"
                THEN /\ Raise(rc.err)
                     /\ hRun' = h
                     /\ roll_yrs' = roll[CurRun].year
                     /\ roll_base' = IF rc.base_read THEN rc.base
                                     ELSE roll_base
                     /\ UNCHANGED <<pars, p, n_it>>
                ELSE /\ roll_base' = rc.base
                     /\ roll_yrs' = roll[CurRun].year
                     /\ pars' = [pars EXCEPT !.cap0 = rc.cap0]
                     /\ hRun' = [h EXCEPT !.cap_set = TRUE,
                                          !.cap_src = rc.src]
                     /\ p' = Broadcast(Index(exo), p0)
                     /\ n_it' = 0
                     /\ pc' = AfterGuess
                     /\ err' = err
       ELSE /\ pars' = DefaultCap(pars, cap0)
            /\ hRun' = [hRun EXCEPT !.cap_set = TRUE, !.cap_src = "default"]
            /\ p' = Broadcast(Index(exo), p0)
            /\ n_it' = 0
            /\ pc' = AfterGuess
            /\ UNCHANGED <<err, roll_base, roll_yrs>>
    /\ UNCHANGED <<config, outdir, files, fi, exo, sol, work, d, summary,
                   hWritten>>

\* run in inertial
IsInertial == CurRun \in inertial

\* The residual function opt.root is given, applied to a guess: its
\* outcomes.
Miss(x) == IF IsInertial THEN miss_one(x, exo, pars)
           ELSE miss_all(x, exo, pars)

\* opt.root takes the outcome m of the residual function at the point x,
\* as an array of floats, which a complex number cannot be made.  The
\* point and the residual are opt.root's own: sol is not assigned before
\* opt.root returns.
TakeResidual(x, m) ==
    /\ n_it' = n_it + 1
    /\ IF m.err # "none"
       THEN /\ Raise(m.err)
            /\ work' = work
       ELSE IF \E i \in 1..Len(m.fun) : m.fun[i] = Complex
       THEN /\ Raise("minpack.error")
            /\ work' = work
       ELSE /\ work' = [x |-> x,
                        fun |-> [i \in 1..Len(m.fun) |-> Float64(m.fun[i])]]
            /\ pc' = "solving"
            /\ err' = err

\* Evaluate the residual function opt.root was given at the point x.
CallMiss(x) == \E m \in Miss(x) : TakeResidual(x, m)

\* Lines 360 and 366, first part: opt.root evaluates the residual at the
\* starting point, p0 for an inertial run and the price guess otherwise.
RootStart ==
    /\ pc = "solve"
    /\ CallMiss(IF IsInertial THEN <<p0>> ELSE Column(p, "v"))
    /\ hRun' = [hRun EXCEPT !.calls = @ + 1, !.roots = @ + 1]
    /\ UNCHANGED <<config, outdir, files, fi, pars, exo, p, sol, d,
                   roll_base, roll_yrs, summary, hWritten>>

\* opt.root tries another guess.
RootStep ==
    /\ pc = "solving"
    /\ hRun.calls < MaxCalls
    /\ \E x \in Guesses(Len(work.x)) : CallMiss(x)
    /\ hRun' = [hRun EXCEPT !.calls = @ + 1]
    /\ UNCHANGED <<config, outdir, files, fi, pars, exo, p, sol, d,
                   roll_base, roll_yrs, summary, hWritten>>

\* The success flags opt.root can report for a final residual: its
\* convergence test is a comparison of norms, false whenever the residual
\* is not finite.
SuccessFlags(fun) == IF AllFinite(fun) THEN BOOLEAN ELSE {FALSE}

\* Lines 360 and 366, the assignment: opt.root returns, sol.x is its last
\* point and sol.fun the residual there.
RootReturn ==
    /\ pc = "solving"
    /\ \E ok \in SuccessFlags(work.fun) :
          sol' = [success |-> ok, x |-> work.x, fun |-> work.fun]
    /\ pc' = "check"
    /\ hRun' = [hRun EXCEPT !.returned = TRUE]
    /\ UNCHANGED <<config, outdir, files, fi, err, pars, exo, p, n_it, work,
                   d, roll_base, roll_yrs, summary, hWritten>>

\* SolvedPath with an inertial run's solution indexed by position.
SolvedPath_Positional(x) == SeriesOf(x)

\* Lines 371-380: make sure it worked, then extract the solution.
SolvedPath(x) == IF IsInertial THEN Broadcast(Index(exo), x[1])
                 ELSE SeriesOf(x)

\* CheckSuccess without the assertion.
CheckSuccess_NoAssert ==
    /\ pc = "check"
    /\ p' = SolvedPath(sol.x)
    /\ pc' = "final"
    /\ UNCHANGED <<config, outdir, files, fi, err, pars, exo, n_it, sol, work,
                   d, roll_base, roll_yrs, summary, hRun, hWritten>>

CheckSuccess ==
    /\ pc = "check"
    /\ IF ~sol.success
       THEN /\ Raise("AssertionError")
            /\ p' = p
       ELSE /\ p' = SolvedPath(sol.x)
            /\ pc' = "final"
            /\ err' = err
    /\ UNCHANGED <<config, outdir, files, fi, pars, exo, n_it, sol, work, d,
                   roll_base, roll_yrs, summary, hRun, hWritten>>

\* Line 385, given the outcome res of the call.
TakeFinal(res) ==
    IF res.err # "none"
    THEN /\ Raise(res.err)
         /\ d' = d
    ELSE /\ d' = res.d
         /\ pc' = IF InRoll(CurRun, roll) THEN "merge" ELSE "save"
         /\ err' = err

\* Line 385: evaluate the model one more time.
FinalEval ==
    /\ pc = "final"
    /\ \E res \in evaluate(p, exo, pars) : TakeFinal(res)
    /\ n_it' = n_it + 1
    /\ hRun' = [hRun EXCEPT !.calls = @ + 1]
    /\ UNCHANGED <<config, outdir, files, fi, pars, exo, p, sol, work,
                   roll_base, roll_yrs, summary, hWritten>>

\* seq[:n] and seq[:-n] for n > 0, as Python slices them.
Take(seq, n) == SubSeq(seq, 1, IF n < Len(seq) THEN n ELSE Len(seq))
DropLast(seq, n) == SubSeq(seq, 1, IF n < Len(seq) THEN Len(seq) - n ELSE 0)

\* d.index = d.index + roll_yrs
ShiftIndex(t, yrs) == [i \in 1..Len(t) |-> [t[i] EXCEPT !.period = @ + yrs]]

\* Lines 398-401: the run glued onto the base run.  roll_base, read from a
\* CSV file, has float64 columns; the run's lam and cap, set to None at
\* lines 108-109, and every column computed from them hold objects.
\* pd.concat gives a column the common type of its two parts, so the cells
\* of the base run's rows in those columns become Python floats.  Where the
\* run's part has no row, whether its column types count depends on the
\* pandas version: both outcomes are given.
\*   Cast: the rows t with their cells in the object columns as objects.
Stack(base, shifted, yrs) ==
    LET ObjectColumns ==
            {"lam", "cap", "inv", "q", "rev_ptc", "rev_itc", "p_market",
             "p_diff"}
        Cast(t) ==
            [i \in 1..Len(t) |->
                [c \in DOMAIN t[i] |->
                    IF c \in ObjectColumns THEN Py(t[i][c]) ELSE t[i][c]]]
    IN  IF yrs > 0
        THEN {Cast(Take(base, yrs)) \o DropLast(shifted, yrs)}
                 \cup (IF Len(DropLast(shifted, yrs)) = 0
                       THEN {Take(base, yrs)} ELSE {})
        ELSE {shifted}

\* SetIndex with the table's own index kept.
SetIndex_KeepOwn(t, idx) == t

\* Line 405: rstack.index = roll_base.index
SetIndex(t, idx) == [i \in 1..Len(t) |-> [t[i] EXCEPT !.period = idx[i]]]

\* Lines 390-409: a rolling run's results are glued onto the prior run.
Merge ==
    /\ pc = "merge"
    /\ \E rstack \in Stack(roll_base, ShiftIndex(d, roll_yrs), roll_yrs) :
          IF Len(rstack) # Len(roll_base)
          THEN /\ Raise("ValueError")
               /\ d' = ShiftIndex(d, roll_yrs)
               /\ hRun' = hRun
          ELSE /\ d' = SetIndex(rstack, Index(roll_base))
               /\ hRun' = [hRun EXCEPT !.merged = TRUE]
               /\ pc' = "save"
               /\ err' = err
    /\ UNCHANGED <<config, outdir, files, fi, pars, exo, p, n_it, sol, work,
                   roll_base, roll_yrs, summary, hWritten>>

\* Lines 413-418: save the results; the baseline goes on to its summary.
Save ==
    /\ pc = "save"
    /\ outdir' = [outdir EXCEPT
                    ![Stem(CurFile)] = [exists |-> TRUE, rows |-> ToCsv(d)]]
    /\ hWritten' = Append(hWritten, Stem(CurFile))
    /\ hRun' = [hRun EXCEPT !.saved = TRUE]
    /\ IF IsBaseline(CurFile)
       THEN /\ pc' = "summary"
            /\ fi' = fi
       ELSE /\ pc' = "loop"
            /\ fi' = fi + 1
    /\ UNCHANGED <<config, files, err, locals>>

\* Lines 435-439: the ITC with the incentive of a 10% subsidy, from the
\* price path and the table's a at the period the code calls last_yr.
BenchSub == Q(1, 10)
BenchItc(price, t, par) ==
    LET last_yr == CHOOSE y \in Labels(t) : \A z \in Labels(t) : y <= z
        pv == Aligned(price, last_yr)
        a == At(t, last_yr, "a")
        i_bench_gamma == RDiv(RMul(RMul(pv, pv), RMul(a, a)),
                              RMul(Z(4), par.w))
        i_bench_itc == RDiv(i_bench_gamma,
                            RMul(RAdd(par.r, par.delta), par.pk))
    IN  RMul(RMul(i_bench_itc, RAdd(Z(2), BenchSub)), BenchSub)

\* Lines 418-444: the summary of the baseline case.
Summary ==
    /\ pc = "summary"
    /\ IF Year10 \notin Labels(d)
       THEN /\ Raise("KeyError")
            /\ UNCHANGED <<summary, fi>>
       ELSE /\ summary' = [cap10 |-> At(d, Year10, "cap"),
                           itc |-> BenchItc(p, d, pars),
                           sub |-> BenchSub]
            /\ pc' = "loop"
            /\ fi' = fi + 1
            /\ err' = err
    /\ UNCHANGED <<config, outdir, files, pars, exo, p, n_it, sol, work, d,
                   roll_base, roll_yrs, hRun, hWritten>>

Next ==
    \/ ListDir
    \/ Finish
    \/ Skip
    \/ ReadExo
    \/ SetCap
    \/ RootStart
    \/ RootStep
    \/ RootReturn
    \/ CheckSuccess
    \/ FinalEval
    \/ Merge
    \/ Save
    \/ Summary

Spec == Init /\ [][Next]_vars

-----------------------------------------------------------------------------
(* The evaluator and the residual functions on their own: a guess, a       *)
(* spreadsheet and a parameter dictionary are drawn, and one of evaluate,  *)
(* miss_all and miss_one is called on them.                                *)

\* The rows a spreadsheet is made of.
RowKinds ==
    {[a |-> Z(1), sub |-> Z(0), itc |-> Z(0), td |-> Z(0)],
     [a |-> Z(2), sub |-> Q(1, 2), itc |-> Z(0), td |-> Q(1, 2)],
     [a |-> Z(1), sub |-> Z(0), itc |-> Q(1, 2), td |-> Z(0)]}

\* Period indexes: from 0 and from 1 with 1..MaxLen periods, with a gap,
\* not in ascending order, and without a period.
EvalShapes ==
    {Span(s, n) : s \in {0, 1}, n \in 1..MaxLen}
        \cup {<<0, 2>>, <<1, 0>>, <<2, 0, 1>>, <<>>}

EvalExos ==
    UNION {{[i \in 1..Len(idx) |->
                ExoRow(idx[i], k[i].a, k[i].sub, k[i].itc, k[i].td)] :
            k \in [1..Len(idx) -> RowKinds]} : idx \in EvalShapes}

\* Parameter dictionaries: cap0 a Python float, as model.toml gives it,
\* or a numpy float64, as a base run's output file does.
EvalPars ==
    {[TomlPars EXCEPT !.elast = Z(-1)] @@ [cap0 |-> c] :
        c \in {cap0, Q(5, 4)}}
        \cup {[r |-> Q(1, 20), delta |-> Q(1, 10), w |-> Z(2), pk |-> Z(1),
               elast |-> Z(-2), scale |-> Z(1), cap0 |-> Py(Z(10))]}

\* The Series whose labels are idx and whose values are x.
Labelled(idx, x) == [i \in 1..Len(idx) |-> [k |-> idx[i], v |-> x[i]]]

EvalInit ==
    /\ endog_p = TRUE
    /\ base_only = FALSE
    /\ force = FALSE
    /\ roll = <<>>
    /\ inertial = {}
    /\ inputs = <<>>
    /\ outdir = [s \in Stems |-> NoFile]
    /\ files = <<>>
    /\ fi = 0
    /\ pc = "call"
    /\ err = "none"
    /\ pars \in EvalPars
    /\ exo \in EvalExos
    /\ p = <<>>
    /\ n_it = 0
    /\ sol = [success |-> FALSE, x |-> <<>>, fun |-> <<>>]
    /\ \E x \in Guesses(Max(Len(exo), 1)) : work = [x |-> x, fun |-> <<>>]
    /\ d = <<>>
    /\ roll_base = <<>>
    /\ roll_yrs = 0
    /\ summary = <<>>
    /\ hRun = FreshRun
    /\ hWritten = <<>>

\* The call returns the table res.d or raises res.err.
TakeResult(res) ==
    /\ d' = res.d
    /\ err' = res.err
    /\ pc' = IF res.err = "none" THEN "returned" ELSE "raised"

\* evaluate is called with the guess g.
CallEvaluate(g) ==
    /\ p' = g
    /\ \E res \in evaluate(g, exo, pars) : TakeResult(res)
    /\ n_it' = n_it + 1
    /\ UNCHANGED <<config, outdir, files, fi, pars, exo, sol, work, roll_base,
                   roll_yrs, summary, hRun, hWritten>>

\* evaluate(p, exo, pars) with p indexed by period.
EvalDirect ==
    /\ pc = "call"
    /\ CallEvaluate(Labelled(Index(exo), work.x))

\* The call of evaluate in miss_all(p_guess, exo, pars).
EvalMissAll ==
    /\ pc = "call"
    /\ CallEvaluate(SeriesOf(work.x))

\* The call of evaluate in miss_one(p_guess, exo, pars).
EvalMissOne ==
    /\ pc = "call"
    /\ CallEvaluate(Broadcast(Index(exo), work.x[1]))

EvalNext ==
    \/ EvalDirect
    \/ EvalMissAll
    \/ EvalMissOne

SpecEval == EvalInit /\ [][EvalNext]_vars

-----------------------------------------------------------------------------
(* Properties of the run loop (Spec).                                      *)

\* The program is inside the loop body, at the file files[fi].
InRun ==
    pc \in {"cap", "solve", "solving", "check", "final", "merge", "save",
            "summary", "crashed"}

\* d is the table the run's final call of evaluate returned, not yet
\* merged onto a base run.
OwnTable ==
    \/ pc = "merge"
    \/ pc \in {"save", "summary"} /\ ~InRoll(CurRun, roll)

\* The Series p has a value at label y.
HasLabel(s, y) == \E i \in 1..Len(s) : s[i].k = y

\* C1: whatever the order of the file list, a rolling run opens its base
\* run's output file only after the loop has been through the base run
\* (which has then been completed and written).
C1_BaselineFirst == hRun.base_opened => hRun.base_done

\* C2: once opt.root has returned without success, the run is aborted by
\* the assertion: it is not merged, and nothing is written to its output
\* file, which is as the run found it.
C2_NoUnconverged ==
    (InRun /\ hRun.returned /\ ~sol.success) =>
        /\ pc \in {"check", "crashed"}
        /\ pc = "crashed" => err = "AssertionError"
        /\ ~hRun.merged
        /\ ~hRun.saved
        /\ outdir[Stem(CurFile)].exists = hRun.existed

C2_Aborted ==
    /\ pc = "crashed"
    /\ err = "AssertionError"
    /\ hRun.returned
    /\ ~sol.success
    /\ AllFinite(sol.fun)

\* C3 as stated: a run whose output file exists is skipped unless force is
\* set, whatever the other run controls.
C3_SkippedUnlessForce == (hRun.existed /\ ~force) => hRun.skipped

\* C3, amended: at each file, the loop goes on to the next file, with no
\* residual or evaluate call and nothing written, exactly if the output
\* file exists and neither force nor base_only is set; otherwise it starts
\* the run.
C3_SkipRule ==
    [][(pc = "loop" /\ fi <= Len(files)) =>
          IF outdir[Stem(CurFile)].exists /\ ~force /\ ~base_only
          THEN /\ pc' = "loop"
               /\ fi' = fi + 1
               /\ hRun'.skipped
               /\ UNCHANGED <<outdir, hWritten, locals>>
          ELSE /\ pc' = "cap"
               /\ fi' = fi
               /\ ~hRun'.skipped]_vars

C3_Skipped == pc = "loop" /\ hRun.skipped /\ hRun.existed

\* The [roll] entry of the current run.
CurRoll == roll[CurRun]

\* C4 as stated: cap0 of a rolling run is set before any call of evaluate,
\* from the run's own cap0 if it has one, the base run's cap at the join
\* year then not being read, and else from the base run's cap at the join
\* year.
C4_OneSourceRead ==
    /\ hRun.calls > 0 => hRun.cap_set
    /\ (InRun /\ hRun.cap_set /\ InRoll(CurRun, roll)) =>
          IF CurRoll.has_cap0
          THEN pars.cap0 = CurRoll.cap0 /\ ~hRun.base_read
          ELSE pars.cap0 = At(roll_base, CurRoll.year, "cap")
               /\ hRun.base_read

\* C4, amended: cap0 of a rolling run is set before any call of evaluate;
\* the base run's cap at the join year is looked up whenever the base
\* run's output could be opened; the value set is the run's own cap0 if it
\* has one and else the base run's cap at the join year.
C4_OneSourceUsed ==
    /\ hRun.calls > 0 => hRun.cap_set
    /\ (InRun /\ hRun.base_opened /\ outdir[CurRoll.base].exists) =>
          hRun.base_read
    /\ (InRun /\ hRun.cap_set /\ InRoll(CurRun, roll)) =>
          /\ roll_base = ReadCsv(outdir[CurRoll.base].rows)
          /\ roll_yrs = CurRoll.year
          /\ pars.cap0 = IF CurRoll.has_cap0 THEN CurRoll.cap0
                         ELSE At(roll_base, roll_yrs, "cap")

C4_Override ==
    /\ InRun
    /\ hRun.cap_set
    /\ hRun.cap_src = "override"
    /\ hRun.base_read
    /\ hRun.calls > 0
    /\ pars.cap0 # At(roll_base, roll_yrs, "cap")

\* C5: evaluate raises whenever the guess has no value for a period of the
\* exogenous table: when opt.root has taken a residual from miss_all, the
\* guess, indexed 0..N-1, had a price for every period.
C5_MissingPriceRaises ==
    (pc = "solving" /\ ~IsInertial) =>
        \A y \in Labels(exo) : HasLabel(SeriesOf(work.x), y)

\* C9: with exogenous prices a run never calls opt.root and calls evaluate
\* once, at p0 over the periods of exo, and the run's table is the table
\* of that call.
C9_Exogenous ==
    ~endog_p =>
        /\ hRun.roots = 0
        /\ hRun.calls <= 1
        /\ OwnTable =>
              /\ hRun.calls = 1
              /\ n_it = 1
              /\ p = Broadcast(Index(exo), p0)
              /\ [err |-> "none", d |-> d]
                    \in evaluate(Broadcast(Index(exo), p0), exo, pars)

C9_Ran ==
    /\ ~endog_p
    /\ pc = "save"
    /\ ~InRoll(CurRun, roll)
    /\ hRun.calls = 1
    /\ Len(d) > 1

\* C10: in every mode the run's table is the result of evaluate on the
\* final price path, which has a price for every period of exo, and the
\* table's p column is that path; the path of an inertial run is sol.x[0]
\* at every period, that of a full run sol.x, that of an exogenous run p0.
C10_PriceColumn ==
    OwnTable =>
        /\ [err |-> "none", d |-> d] \in evaluate(p, exo, pars)
        /\ Index(d) = Index(exo)
        /\ \A i \in 1..Len(d) :
              HasLabel(p, d[i].period) /\ d[i].p = Aligned(p, d[i].period)
        /\ p = IF ~endog_p THEN Broadcast(Index(exo), p0)
               ELSE IF IsInertial THEN Broadcast(Index(exo), sol.x[1])
               ELSE Labelled(Index(exo), sol.x)

C10_InertialSolved ==
    /\ endog_p
    /\ pc = "save"
    /\ ~InRoll(CurRun, roll)
    /\ IsInertial
    /\ Len(d) > 1
    /\ sol.x[1] # p0
    /\ \A i \in 1..Len(d) : d[i].p = sol.x[1]

-----------------------------------------------------------------------------
(* Properties of the tables evaluate returns (SpecEval).                   *)

FirstYear(t) == CHOOSE y \in Labels(t) : \A z \in Labels(t) : y <= z
LastYear(t) == CHOOSE y \in Labels(t) : \A z \in Labels(t) : y >= z

\* C6: in a returned table, of one period or more, cap of the first period
\* is pars['cap0'] and lam of the last period is its lam_ss.
C6_BoundaryConditions ==
    pc = "returned" =>
        /\ At(d, FirstYear(d), "cap") = pars.cap0
        /\ At(d, LastYear(d), "lam") = At(d, LastYear(d), "lam_ss")

C6_SinglePeriod ==
    /\ pc = "returned"
    /\ Len(d) = 1
    /\ IsFinite(d[1].lam)
    /\ d[1].cap = pars.cap0

\* C7: in a returned table, cap of the period after y is inv[y] plus
\* (1 - delta) cap[y] for every period y before the last, inv[y] being
\* (lam[y]/(1 - td[y]) - pk (1 - itc[y]))/(2w), and cap is set in every
\* period of the exogenous table.
C7_ForwardRecursion ==
    pc = "returned" =>
        /\ Len(exo) <= Len(d)
        /\ \A i \in 1..Len(exo) : d[i].period = exo[i].period
        /\ \A i \in 1..Len(d) :
              /\ ~IsNone(d[i].cap)
              /\ d[i].inv =
                    RDiv(RSub(RDiv(d[i].lam, RSub(One, d[i].td)),
                              RMul(pars.pk, RSub(One, d[i].itc))),
                         RMul(Z(2), pars.w))
        /\ \A y \in Labels(d) \ {LastYear(d)} :
              /\ (y + 1) \in Labels(d)
              /\ At(d, y + 1, "cap") =
                    RAdd(At(d, y, "inv"),
                         RMul(RSub(One, pars.delta), At(d, y, "cap")))

C7_Accumulated ==
    /\ pc = "returned"
    /\ Len(d) = MaxLen
    /\ \A i \in 1..Len(d) : IsFinite(d[i].cap) /\ ~IsZero(d[i].inv)
    /\ At(d, LastYear(d), "cap") # pars.cap0

\* The finite x lies within the relative distance 2^-50 (four units in the
\* last place of a float in [1, 2)) of the finite y.
Close(x, y) ==
    LET RAbs(v) == <<0, v[2], v[3], v[4]>>
        Eps == <<0, 2^25, 0, 0 - 102>>
    IN  RSub(RMul(Eps, RAbs(y)), RAbs(RSub(x, y)))[1] = 0

\* Line 122's numerator and denominator at period y of a returned table.
LamNum(y) ==
    RAdd(At(d, y + 1, "lam"),
         RMul(At(d, y, "gamma"), RSub(One, At(d, y, "td"))))
LamDen == RAdd(RAdd(One, pars.r), pars.delta)

\* C8: in a returned table lam is set in every period and, for every
\* period y before the last, lam[y] is the float quotient of
\* lam[y+1] + gamma[y] (1 - td[y]) by 1 + r + delta, so that
\* lam[y] (1 + r + delta) is that sum up to the rounding of the quotient
\* and of the product (within 2^-50 of it), not bit for bit.
C8_BackwardQuotient ==
    pc = "returned" =>
        /\ \A i \in 1..Len(d) : ~IsNone(d[i].lam)
        /\ \A y \in Labels(d) \ {LastYear(d)} :
              /\ (y + 1) \in Labels(d)
              /\ At(d, y, "lam") = RDiv(LamNum(y), LamDen)
              /\ (IsFinite(LamNum(y)) /\ IsFinite(At(d, y, "lam"))) =>
                    Close(RMul(At(d, y, "lam"), LamDen), LamNum(y))

\* C8 as first stated: lam[y] (1 + r + delta) is, bit for bit, lam of the
\* period after y plus gamma[y] (1 - td[y]) for every period y before the
\* last, and lam is set in every period.
C8_BackwardRecursion ==
    pc = "returned" =>
        /\ \A i \in 1..Len(d) : ~IsNone(d[i].lam)
        /\ \A y \in Labels(d) \ {LastYear(d)} :
              /\ (y + 1) \in Labels(d)
              /\ RMul(At(d, y, "lam"), LamDen) = LamNum(y)

\* A full-length table whose lam is discounted and in which the rounding
\* shows: the product at the first period is not the sum.
C8_Discounted ==
    /\ pc = "returned"
    /\ Len(d) = MaxLen
    /\ \A i \in 1..Len(d) : IsFinite(d[i].lam)
    /\ At(d, FirstYear(d), "lam") # At(d, FirstYear(d), "lam_ss")
    /\ (FirstYear(d) + 1) \in Labels(d)
    /\ RMul(At(d, FirstYear(d), "lam"), LamDen) # LamNum(FirstYear(d))


-----------------------------------------------------------------------------
(* Properties of the rolling merge and of the batch (Spec).                *)

\* Two rows hold the same values in every column; the period label aside.
SameValues(r1, r2) ==
    /\ DOMAIN r1 = DOMAIN r2
    /\ \A c \in DOMAIN r1 \ {"period"} : r1[c] = r2[c]

\* The row of table t at period y.
RowAt(t, y) == t[Pos(t, y)]

\* Two rows hold equal numbers in every column, whether a cell is a Python
\* float or a numpy float64.
EqualCells(r1, r2) ==
    /\ DOMAIN r1 = DOMAIN r2
    /\ \A c \in DOMAIN r1 \ {"period"} : Float64(r1[c]) = Float64(r2[c])

\* The tables at hand admit the merged table of C11: the run has a row for
\* its own period k - j at every period k of the base run from j on, and j
\* rows more, those to be dropped.
Spliceable ==
    /\ \A k \in Labels(roll_base) :
          k >= roll_yrs => (k - roll_yrs) \in Labels(d)
    /\ Len(d) =
          Cardinality({k \in Labels(roll_base) : k >= roll_yrs}) + roll_yrs

\* C11: where such a table exists, a merge at a join year j > 0 gives a
\* table with the base run's number of rows and period index, whose rows
\* at the periods before j equal the base run's rows at those periods and
\* whose row at every period k from j on holds the values of the run's own
\* row at its period k - j.
C11_SpliceByPeriod ==
    [][(pc = "merge" /\ roll_yrs > 0 /\ Spliceable) =>
          /\ pc' = "save"
          /\ Len(d') = Len(roll_base)
          /\ Index(d') = Index(roll_base)
          /\ \A k \in Labels(d') :
                IF k < roll_yrs
                THEN EqualCells(RowAt(d', k), RowAt(roll_base, k))
                ELSE SameValues(RowAt(d', k), RowAt(d, k - roll_yrs))]_vars

\* C12: a merge at the join year 0 gives the run's own table, every row
\* kept and every value as it was, under the base run's period index.
C12_JoinAtZero ==
    [][(pc = "merge" /\ pc' = "save" /\ roll_yrs = 0) =>
          /\ Len(d') = Len(d)
          /\ \A i \in 1..Len(d) : SameValues(d'[i], d[i])
          /\ Index(d') = Index(roll_base)]_vars

C12_MergedAtZero ==
    /\ pc = "save"
    /\ hRun.merged
    /\ roll_yrs = 0
    /\ Len(d) > 1
    /\ Index(d) = Index(roll_base)
    /\ Index(d) # Index(exo)
    /\ \E i \in 1..Len(d) : ~SameValues(d[i], roll_base[i])


\* The loop has just been through the baseline run and logged its summary.
AfterSummary ==
    /\ pc = "loop"
    /\ fi > 1
    /\ IsBaseline(files[fi - 1])
    /\ hRun.saved

\* gamma = (p**2 * a**2)/(4*w) at period y of table t.
GammaAt(t, y, par) ==
    RDiv(RMul(RMul(At(t, y, "p"), At(t, y, "p")),
              RMul(At(t, y, "a"), At(t, y, "a"))),
         RMul(Z(4), par.w))

\* C13: the benchmark ITC logged for the baseline is
\* gamma/((r + delta) pk) (2 + 0.1) 0.1 with gamma that of the last period
\* of the baseline's table.
C13_TerminalGamma ==
    AfterSummary =>
        summary.itc =
            RMul(RMul(RDiv(GammaAt(d, LastYear(d), pars),
                           RMul(RAdd(pars.r, pars.delta), pars.pk)),
                      RAdd(Z(2), Q(1, 10))),
                 Q(1, 10))


\* C14: a run that is not rolling is evaluated with pars['cap0'] at the
\* default cap0 whatever the runs before it set, and no run changes r,
\* delta, w, pk, elast or scale.
C14_ParsPerRun ==
    /\ \A k \in DOMAIN TomlPars : pars[k] = TomlPars[k]
    /\ (InRun /\ ~InRoll(CurRun, roll)
              /\ (hRun.cap_set \/ hRun.calls > 0)) =>
          pars.cap0 = cap0

C14_AfterRollingRun ==
    /\ InRun
    /\ CurRun = "r01"
    /\ hRun.calls > 0
    /\ Len(hWritten) = 1
    /\ hWritten[1] = "r02-reform"
    /\ InRoll("r02", roll)
    /\ roll["r02"].has_cap0
    /\ roll["r02"].cap0 # cap0
    /\ pars.cap0 = cap0

=============================================================================
